---------------------------- MODULE Spec2Model ----------------------------
(***************************************************************************)
(* Model of DeploymentManager (src/src/k8s_manager/deployment_manager.py): *)
(* the deployment revision history and rollback logic, together with the   *)
(* cluster objects (Deployments, ReplicaSets) its SDK calls read and write.*)
(*                                                                         *)
(* The cluster is one namespace.  A ReplicaSet's metadata.annotations is a *)
(* mapping that may lack the revision key (the case the code defaults to   *)
(* '0'); annotation values are decimal digit strings.                      *)
(*                                                                         *)
(* Further sections model ContainerManager.get_container_stats and         *)
(* get_container, two concurrent callers of rollback and update, the       *)
(* namespace operations, K8sManager with the /current-namespace routes,    *)
(* and DockerManager.cleanup_system, ImageManager.pull_image,              *)
(* VolumeManager.backup_volume and the Docker routes.                      *)
(***************************************************************************)
EXTENDS Integers, Sequences, FiniteSets, Bags, TLC

(* deployments:  name -> the cluster's Deployment object (None: absent),  *)
(*               what read_namespaced_deployment returns (line 379).       *)
(* replica_sets: the cluster's ReplicaSet objects in the order the API     *)
(*               lists them (list_namespaced_replica_set, lines 349-352).  *)
(* result:       the last call of a DeploymentManager method: arguments,   *)
(*               the locals replica_sets.items, sorted_rs, target_rs and   *)
(*               history, the deployment as it was before the call, and    *)
(*               the value returned or the error raised, and the API       *)
(*               requests it issued.                                       *)
(* threads:      the calls of DeploymentManager methods in flight on       *)
(*               concurrent threads, each with its position and locals.    *)
(* docker:       the last call of a ContainerManager method: the answer of *)
(*               the Docker daemon and the value returned or error raised; *)
(*               also the last call of DockerManager.cleanup_system, of    *)
(*               ImageManager.pull_image, of VolumeManager.backup_volume   *)
(*               or of a route of src/src/api/docker_api.py.               *)
(* k8s:          a K8sManager (cluster_name, current_namespace, the        *)
(*               cluster its API handles are connected to), the namespaces *)
(*               of the cluster, and the last call made on it, on a        *)
(*               NamespaceManager or on the HTTP routes over them.         *)
VARIABLES deployments, replica_sets, result, threads, docker, k8s

vars == <<deployments, replica_sets, result, threads, docker, k8s>>

(* ------------------------------ bounds --------------------------------- *)
MaxRS == 2          \* ReplicaSets a cluster grows to from empty
MaxRev == 4         \* highest revision number a rollout assigns, or a call asks for
MaxRecords == 3     \* length of an arbitrary initial record collection
MaxInputRev == 3    \* highest revision number in an arbitrary initial collection
ReplicaCounts == {1, 2}

Names == {"a", "b"}
Images == {"v1", "v2"}
AppLabels == Names  \* values of the 'app' label

(* Optional values (None / a value) are sequences of length 0 or 1. *)
None == <<>>
Some(x) == <<x>>
Option(S) == {None} \cup {Some(x) : x \in S}

(* ------------------------- annotation strings -------------------------- *)
REVISION_KEY == "deployment.kubernetes.io/revision"

RECURSIVE Str(_)
(* str(n): the decimal digits of a natural number, most significant first *)
Str(n) == IF n < 10 THEN <<n>> ELSE Append(Str(n \div 10), n % 10)

RECURSIVE ParseInt(_)
(* int(s) for a string of decimal digits *)
ParseInt(s) ==
    IF Len(s) = 0 THEN 0
    ELSE ParseInt(SubSeq(s, 1, Len(s) - 1)) * 10 + s[Len(s)]

(* annotations.get(key, default): annotations is a set of <<key, value>> *)
AnnotationsGet(annotations, key, default) ==
    IF \E p \in annotations : p[1] = key
    THEN (CHOOSE p \in annotations : p[1] = key)[2]
    ELSE default

(* int(rs.metadata.annotations.get('deployment.kubernetes.io/revision', '0')) *)
RevisionOf(rs) == ParseInt(AnnotationsGet(rs.annotations, REVISION_KEY, <<0>>))

(* ------------------------------ sorting -------------------------------- *)
Reverse(s) == [i \in 1..Len(s) |-> s[Len(s) + 1 - i]]

RECURSIVE InsertAsc(_, _)
(* insert the pair p = <<key, item>> after every pair with key <= p's key *)
InsertAsc(sorted, p) ==
    IF sorted = <<>> THEN <<p>>
    ELSE IF sorted[Len(sorted)][1] <= p[1] THEN Append(sorted, p)
    ELSE Append(InsertAsc(SubSeq(sorted, 1, Len(sorted) - 1), p),
                sorted[Len(sorted)])

RECURSIVE StableSortAsc(_)
(* stable ascending sort of <<key, item>> pairs by key *)
StableSortAsc(pairs) ==
    IF pairs = <<>> THEN <<>>
    ELSE InsertAsc(StableSortAsc(SubSeq(pairs, 1, Len(pairs) - 1)),
                   pairs[Len(pairs)])

(* Mutant: the sort without reverse=True. *)
SortNoReverse(pairs) == StableSortAsc(pairs)

(* Mutant: an ascending sort followed by a reversal of the result. *)
SortThenReverse(pairs) == Reverse(StableSortAsc(pairs))

(* list.sort(key=..., reverse=True): reverse, sort stably ascending, reverse *)
SortReverse(pairs) == Reverse(StableSortAsc(Reverse(pairs)))

Items(pairs) == [i \in 1..Len(pairs) |-> pairs[i][2]]


(* --------------------------- cluster objects --------------------------- *)
(* V1PodTemplateSpec: metadata.labels (its 'app' value) and the image of   *)
(* its first container.                                                    *)
Template(labels, image) == [labels |-> labels, image |-> image]

(* V1Deployment: metadata.labels, spec.replicas, spec.template *)
Deployment(labels, replicas, template) ==
    [labels |-> labels, replicas |-> replicas, template |-> template]

(* V1ReplicaSet: uid (creation order), owner reference, metadata.labels,   *)
(* metadata.annotations, spec.template                                     *)
ReplicaSet(uid, owner, labels, annotations, template) ==
    [uid |-> uid, owner |-> owner, labels |-> labels,
     annotations |-> annotations, template |-> template]

RevisionAnnotation(n) == {<<REVISION_KEY, Str(n)>>}

Max(S) == CHOOSE x \in S : \A y \in S : y <= x

(* The revision the deployment controller gives the next template of the   *)
(* deployment `name`: one more than the highest among the ReplicaSets it   *)
(* owns.                                                                   *)
NextRevision(rss, name) ==
    LET owned == {i \in 1..Len(rss) : rss[i].owner = name}
    IN  IF owned = {} THEN 1 ELSE Max({RevisionOf(rss[i]) : i \in owned}) + 1

(* True when the controller needs a new ReplicaSet object for `template`. *)
NeedsNewReplicaSet(rss, name, template) ==
    ~ \E i \in 1..Len(rss) : rss[i].owner = name /\ rss[i].template = template

(* The ReplicaSets after the deployment `name` got the pod template        *)
(* `template`: the owned ReplicaSet with that template is renumbered to    *)
(* the next revision, or a new one is created for it.                      *)
RolloutReplicaSets(rss, name, template) ==
    IF NeedsNewReplicaSet(rss, name, template)
    THEN Append(rss, ReplicaSet(Len(rss) + 1, name, template.labels,
                                RevisionAnnotation(NextRevision(rss, name)),
                                template))
    ELSE LET i == CHOOSE j \in 1..Len(rss) :
                      rss[j].owner = name /\ rss[j].template = template
         IN  [rss EXCEPT ![i].annotations =
                             RevisionAnnotation(NextRevision(rss, name))]

(* The model's bounds allow the rollout of `template`. *)
RolloutWithinBounds(rss, name, template) ==
    /\ NextRevision(rss, name) <= MaxRev
    /\ NeedsNewReplicaSet(rss, name, template) => Len(rss) < MaxRS

(* apps_v1.list_namespaced_replica_set(label_selector=f"app={name}") *)
ListReplicaSets(name) == SelectSeq(replica_sets, LAMBDA rs : rs.labels = name)

(* ------------------------------ results -------------------------------- *)
(* An outcome is a returned value or a raised K8sDeploymentError(message); *)
(* a message is its fixed text and the values interpolated into it.        *)
Returned(value) ==
    [kind |-> "return", text |-> value, name_arg |-> None, revision_arg |-> None]
Raised(text, name_arg) ==
    [kind |-> "K8sDeploymentError", text |-> text, name_arg |-> name_arg,
     revision_arg |-> None]

(* One request to the cluster API: the AppsV1Api method called, the name   *)
(* it is called for and the replica count its body carries (None: the body *)
(* is no scale, or there is no body).                                      *)
Request(call, name, replicas) == [call |-> call, name |-> name, replicas |-> replicas]

NoResult ==
    [op |-> "none", name |-> "", revision |-> None, items |-> <<>>,
     sorted_rs |-> <<>>, target_rs |-> None, history |-> <<>>,
     before |-> None, outcome |-> Returned(""), requests |-> <<>>,
     replicas |-> None]

(* ------------------------- rollback selection -------------------------- *)
(* sorted(replica_sets.items, key=int(revision annotation), reverse=True) *)
SortedRS(items) ==
    Items(SortReverse([i \in 1..Len(items) |-> <<RevisionOf(items[i]), items[i]>>]))

(* Python truth value of the `revision` argument (Optional[int]) *)
Truthy(revision) == revision # None /\ revision[1] # 0

(* for rs in sorted_rs: if int(revision annotation) == revision: break *)
FirstWithRevision(sorted_rs, n) ==
    LET matches == {i \in 1..Len(sorted_rs) : RevisionOf(sorted_rs[i]) = n}
    IN  IF matches = {} THEN None
        ELSE Some(sorted_rs[CHOOSE i \in matches : \A j \in matches : i <= j])

(* Mutant: the previous version taken at index 0. *)
SelectTargetIndex0(sorted_rs, revision) ==
    IF Truthy(revision)
    THEN FirstWithRevision(sorted_rs, revision[1])
    ELSE IF Len(sorted_rs) > 1 THEN Some(sorted_rs[1]) ELSE None

(* Mutant: the length test off by one (len(sorted_rs) > 0, last element). *)
SelectTargetLast(sorted_rs, revision) ==
    IF Truthy(revision)
    THEN FirstWithRevision(sorted_rs, revision[1])
    ELSE IF Len(sorted_rs) > 0 THEN Some(sorted_rs[Len(sorted_rs)]) ELSE None

(* target_rs of rollback_deployment *)
SelectTarget(sorted_rs, revision) ==
    IF Truthy(revision)
    THEN FirstWithRevision(sorted_rs, revision[1])
    ELSE IF Len(sorted_rs) > 1 THEN Some(sorted_rs[2]) ELSE None

(* Mutant: the assignment of the template left out. *)
RolledBackUnchanged(deployment, target_rs) == deployment

(* deployment.spec.template = target_rs.spec.template *)
RolledBack(deployment, target_rs) ==
    [deployment EXCEPT !.template = target_rs.template]

(* ------------------------------ history -------------------------------- *)
(* one entry of get_deployment_history's list *)
HistoryEntry(rs) ==
    [revision |-> ParseInt(AnnotationsGet(rs.annotations, REVISION_KEY, <<0>>)),
     creation_timestamp |-> rs.uid,
     image |-> rs.template.image]

(* history.sort(key=lambda x: x['revision'], reverse=True) *)
SortHistory(history) ==
    Items(SortReverse([i \in 1..Len(history) |-> <<history[i].revision, history[i]>>]))

(* Mutant: ReplicaSets without the revision annotation are skipped. *)
BuildHistoryAnnotated(items) ==
    SortHistory(LET kept == SelectSeq(items, LAMBDA rs : rs.annotations # {})
                IN  [i \in 1..Len(kept) |-> HistoryEntry(kept[i])])

(* the list get_deployment_history returns for the listed items *)
BuildHistory(items) == SortHistory([i \in 1..Len(items) |-> HistoryEntry(items[i])])

(* ------------------------------ actions -------------------------------- *)
(* create_deployment(name, image, replicas, labels): labels None stands    *)
(* for the default {'app': name}.  The cluster answers 409 when the name   *)
(* is taken; otherwise the deployment exists and its controller creates    *)
(* the ReplicaSet of revision 1 with the pod template's labels.            *)
CreateDeployment(name, image, replicas, labels) ==
    LET lab == IF labels = None THEN name ELSE labels[1]
        template == Template(lab, image)
        call == [NoResult EXCEPT !.op = "create_deployment", !.name = name,
                                 !.before = deployments[name],
                                 !.requests = <<Request("create_namespaced_deployment",
                                                        name, None)>>]
    IN  IF deployments[name] # None
        THEN /\ result' = [call EXCEPT !.outcome = Raised("create failed", Some(name))]
             /\ UNCHANGED <<deployments, replica_sets>>
        ELSE /\ RolloutWithinBounds(replica_sets, name, template)
             /\ deployments' = [deployments EXCEPT
                                  ![name] = Some(Deployment(lab, replicas, template))]
             /\ replica_sets' = RolloutReplicaSets(replica_sets, name, template)
             /\ result' = [call EXCEPT !.outcome = Returned(name)]

(* update_deployment(name, image, replicas): read, modify, patch *)
UpdateDeployment(name, image, replicas) ==
    LET call == [NoResult EXCEPT !.op = "update_deployment", !.name = name,
                                 !.replicas = replicas,
                                 !.before = deployments[name],
                                 !.requests = <<Request("read_namespaced_deployment",
                                                        name, None)>>]
    IN  IF deployments[name] = None
        THEN /\ result' = [call EXCEPT !.outcome = Raised("update failed", Some(name))]
             /\ UNCHANGED <<deployments, replica_sets>>
        ELSE LET read == deployments[name][1]
                 d1 == IF replicas # None
                       THEN [read EXCEPT !.replicas = replicas[1]] ELSE read
                 d2 == IF image # None
                       THEN [d1 EXCEPT !.template.image = image[1]] ELSE d1
             IN  /\ d2.template # read.template
                      => RolloutWithinBounds(replica_sets, name, d2.template)
                 /\ deployments' = [deployments EXCEPT ![name] = Some(d2)]
                 /\ replica_sets' =
                        IF d2.template # read.template
                        THEN RolloutReplicaSets(replica_sets, name, d2.template)
                        ELSE replica_sets
                 /\ result' = [call EXCEPT
                                  !.outcome = Returned("True"),
                                  !.requests = Append(call.requests,
                                      Request("patch_namespaced_deployment", name, None))]

(* Mutant: the emptiness test left out. *)
NoItemsNever(items) == FALSE

(* if not replica_sets.items *)
NoItems(items) == items = <<>>

(* The outcome of rollback_deployment on the listed `items`, with `live`  *)
(* the deployment read_namespaced_deployment finds (None: 404).           *)
RollbackOutcome(name, items, revision, live) ==
    IF NoItems(items)
    THEN Raised("no ReplicaSet of Deployment", Some(name))
    ELSE IF SelectTarget(SortedRS(items), revision) = None
    THEN Raised("no ReplicaSet of target revision", None)
    ELSE IF live = None
    THEN Raised("rollback failed", Some(name))
    ELSE Returned("True")

(* Mutant: the patch sent whatever the outcome. *)
RollbackRequestsAlwaysPatch(name, items, revision, outcome) ==
    <<Request("list_namespaced_replica_set", name, None),
      Request("read_namespaced_deployment", name, None),
      Request("patch_namespaced_deployment", name, None)>>

(* The API requests rollback_deployment issues up to its `outcome`. *)
RollbackRequests(name, items, revision, outcome) ==
    <<Request("list_namespaced_replica_set", name, None)>>
    \o (IF NoItems(items) \/ SelectTarget(SortedRS(items), revision) = None
        THEN <<>>
        ELSE <<Request("read_namespaced_deployment", name, None)>>)
    \o (IF outcome.kind = "return"
        THEN <<Request("patch_namespaced_deployment", name, None)>>
        ELSE <<>>)

(* rollback_deployment(name, revision) *)
RollbackDeployment(name, revision) ==
    LET items == ListReplicaSets(name)
        sorted_rs == IF NoItems(items) THEN <<>> ELSE SortedRS(items)
        target_rs == SelectTarget(sorted_rs, revision)
        outcome == RollbackOutcome(name, items, revision, deployments[name])
        call == [NoResult EXCEPT !.op = "rollback_deployment", !.name = name,
                                 !.revision = revision, !.items = items,
                                 !.sorted_rs = sorted_rs, !.target_rs = target_rs,
                                 !.before = deployments[name],
                                 !.outcome = outcome,
                                 !.requests = RollbackRequests(name, items, revision,
                                                               outcome)]
    IN  IF outcome.kind # "return"
        THEN /\ result' = call
             /\ UNCHANGED <<deployments, replica_sets>>
        ELSE LET read == deployments[name][1]
                 body == RolledBack(read, target_rs[1])
             IN  /\ body.template # read.template
                      => RolloutWithinBounds(replica_sets, name, body.template)
                 /\ deployments' = [deployments EXCEPT ![name] = Some(body)]
                 /\ replica_sets' =
                        IF body.template # read.template
                        THEN RolloutReplicaSets(replica_sets, name, body.template)
                        ELSE replica_sets
                 /\ result' = call

(* get_deployment_history(name) *)
GetDeploymentHistory(name) ==
    LET items == ListReplicaSets(name)
    IN  /\ result' = [NoResult EXCEPT !.op = "get_deployment_history", !.name = name,
                                      !.items = items, !.history = BuildHistory(items),
                                      !.before = deployments[name],
                                      !.outcome = Returned("history"),
                                      !.requests = <<Request("list_namespaced_replica_set",
                                                             name, None)>>]
        /\ UNCHANGED <<deployments, replica_sets>>

(* Mutant: the scale patch sent a second time. *)
ScaleRequestsTwice(name, replicas) ==
    <<Request("patch_namespaced_deployment_scale", name, Some(replicas)),
      Request("patch_namespaced_deployment_scale", name, Some(replicas))>>

(* patch_namespaced_deployment_scale(name, namespace, body=V1Scale(replicas)) *)
ScaleRequests(name, replicas) ==
    <<Request("patch_namespaced_deployment_scale", name, Some(replicas))>>

(* Mutant: the scale applied as a whole-spec patch that resets the image. *)
ScaledResetImage(deployment, replicas) ==
    [deployment EXCEPT !.replicas = replicas, !.template.image = "v1"]

(* The deployment after the scale subresource took V1ScaleSpec(replicas). *)
Scaled(deployment, replicas) == [deployment EXCEPT !.replicas = replicas]

(* scale_deployment(name, replicas) *)
ScaleDeployment(name, replicas) ==
    LET call == [NoResult EXCEPT !.op = "scale_deployment", !.name = name,
                                 !.replicas = Some(replicas),
                                 !.before = deployments[name],
                                 !.requests = ScaleRequests(name, replicas)]
    IN  IF deployments[name] = None
        THEN /\ result' = [call EXCEPT !.outcome = Raised("scale failed", Some(name))]
             /\ UNCHANGED <<deployments, replica_sets>>
        ELSE /\ deployments' = [deployments EXCEPT
                                  ![name] = Some(Scaled(deployments[name][1], replicas))]
             /\ result' = [call EXCEPT !.outcome = Returned("True")]
             /\ UNCHANGED replica_sets

(* --------------------------- specifications ---------------------------- *)
Revisions == 0..MaxRev

(* No call in flight on a second thread; no call made on a Docker manager  *)
(* or route: `target` holds the other string arguments, `flags` those of   *)
(* cleanup_system, `requests` what was asked of the daemon (and of the     *)
(* file system), `keys` the keys of a returned dictionary and `status` the *)
(* HTTP status of a route.                                                 *)
NoThreads == <<>>
NoDockerCall ==
    [op |-> "none", container_id |-> "", answer |-> "none", stats |-> None,
     report |-> None, info |-> None, raised |-> None,
     target |-> <<>>, flags |-> <<>>, requests |-> <<>>, keys |-> {},
     status |-> None]

(* system_namespaces of NamespaceManager.delete_namespace *)
system_namespaces == {"default", "kube-system", "kube-public", "kube-node-lease"}
UserNamespaces == {"dev"}
NamespaceNames == system_namespaces \cup UserNamespaces

(* The value a K8sManager or NamespaceManager method returns, the error it *)
(* raises, or the reply of an HTTP route (status: Some(code)).             *)
K8sOutcome(kind, text, status) == [kind |-> kind, text |-> text, status |-> status]

(* One call: the method or route, its name and force arguments (passed:    *)
(* whether the caller gave force at all), the requests sent to the cluster *)
(* and the namespaces and manager fields as they were before it.           *)
NoK8sCall ==
    [op |-> "none", name |-> "", force |-> FALSE, requests |-> <<>>,
     outcome |-> K8sOutcome("return", "", None), before |-> {},
     cluster_before |-> "", namespace_before |-> "", handles_before |-> None]

(* K8sManager.__init__ on the default cluster, 'local-cluster', whose      *)
(* configured namespace is 'default'.                                      *)
InitialK8s ==
    [cluster_name |-> "local-cluster", current_namespace |-> "default",
     handles |-> Some("local-cluster"),
     namespaces |-> NamespaceNames, posted |-> None, call |-> NoK8sCall]

(* The state the specifications of DeploymentManager leave alone. *)
OnlyDeployments == UNCHANGED <<threads, docker, k8s>>

(* An empty cluster. *)
Init ==
    /\ deployments = [n \in Names |-> None]
    /\ replica_sets = <<>>
    /\ result = NoResult
    /\ threads = NoThreads
    /\ docker = NoDockerCall
    /\ k8s = InitialK8s

Next ==
    \/ \E n \in Names, img \in Images, r \in ReplicaCounts, l \in Option(AppLabels) :
           CreateDeployment(n, img, r, l) /\ OnlyDeployments
    \/ \E n \in Names, img \in Option(Images), r \in Option(ReplicaCounts) :
           UpdateDeployment(n, img, r) /\ OnlyDeployments
    \/ \E n \in Names, r \in ReplicaCounts : ScaleDeployment(n, r) /\ OnlyDeployments
    \/ \E n \in Names, rev \in Option(Revisions) :
           RollbackDeployment(n, rev) /\ OnlyDeployments
    \/ \E n \in Names : GetDeploymentHistory(n) /\ OnlyDeployments

Spec == Init /\ [][Next]_vars

(* The resolver over an arbitrary revision-record collection: the cluster *)
(* holds any list of at most MaxRecords ReplicaSets labelled app=a, each   *)
(* with any revision annotation up to MaxInputRev or none, their images    *)
(* alternating, and the deployment a exists or not.                        *)
AnyAnnotations == {{}} \cup {RevisionAnnotation(n) : n \in 0..MaxInputRev}

ImageOfRecord(i) == IF i % 2 = 1 THEN "v1" ELSE "v2"

InitResolver ==
    /\ \E len \in 0..MaxRecords :
         \E ann \in [1..len -> AnyAnnotations] :
            replica_sets = [i \in 1..len |->
                              ReplicaSet(i, "a", "a", ann[i],
                                         Template("a", ImageOfRecord(i)))]
    /\ \E d \in Option({Deployment("a", 1, Template("a", "v1"))}) :
            deployments = [n \in Names |-> IF n = "a" THEN d ELSE None]
    /\ result = NoResult
    /\ threads = NoThreads
    /\ docker = NoDockerCall
    /\ k8s = InitialK8s

NextResolver ==
    \/ \E n \in Names, rev \in Option(Revisions) :
           RollbackDeployment(n, rev) /\ OnlyDeployments
    \/ \E n \in Names : GetDeploymentHistory(n) /\ OnlyDeployments

SpecResolver == InitResolver /\ [][NextResolver]_vars

(* ===================== concurrent callers, step by step ================ *)
(* rollback_deployment and update_deployment hold no lock and make their   *)
(* API requests one after the other, so two callers interleave between     *)
(* requests.  `threads` holds for each caller its call, the request it is  *)
(* at (pc) and its local variables.                                        *)
Thread(op, name, revision, image, replicas) ==
    [op |-> op, name |-> name, revision |-> revision, image |-> image,
     replicas |-> replicas,
     pc |-> IF op = "rollback_deployment" THEN "list" ELSE "read",
     target_rs |-> None, body |-> None, read |-> None, stale |-> FALSE,
     outcome |-> Returned("")]

RollbackThreads ==
    {Thread("rollback_deployment", "a", rev, None, None) : rev \in Option(0..MaxInputRev)}
UpdateThreads ==
    {Thread("update_deployment", "a", None, img, r) :
        img \in Option(Images), r \in Option(ReplicaCounts)}

(* The cluster the callers start on: create_deployment('a', 'v1') followed *)
(* by update_deployment('a', image='v2').                                  *)
StartDeployments ==
    [n \in Names |-> IF n = "a" THEN Some(Deployment("a", 1, Template("a", "v2")))
                     ELSE None]
StartReplicaSets ==
    <<ReplicaSet(1, "a", "a", RevisionAnnotation(1), Template("a", "v1")),
      ReplicaSet(2, "a", "a", RevisionAnnotation(2), Template("a", "v2"))>>

(* The thread has raised K8sDeploymentError and is over. *)
Failed(thread, text, name_arg) ==
    [thread EXCEPT !.pc = "done", !.outcome = Raised(text, name_arg)]

(* rollback_deployment up to its first request and the selection *)
ListStep(t) ==
    LET th == threads[t]
        items == ListReplicaSets(th.name)
        target_rs == IF NoItems(items) THEN None
                     ELSE SelectTarget(SortedRS(items), th.revision)
    IN  /\ th.pc = "list"
        /\ threads' = [threads EXCEPT ![t] =
              IF NoItems(items)
              THEN Failed(th, "no ReplicaSet of Deployment", Some(th.name))
              ELSE IF target_rs = None
              THEN Failed(th, "no ReplicaSet of target revision", None)
              ELSE [th EXCEPT !.pc = "read", !.target_rs = target_rs]]
        /\ UNCHANGED <<deployments, replica_sets>>

(* The body update_deployment builds from the deployment it read. *)
UpdateBody(read, image, replicas) ==
    LET d1 == IF replicas # None THEN [read EXCEPT !.replicas = replicas[1]] ELSE read
    IN  IF image # None THEN [d1 EXCEPT !.template.image = image[1]] ELSE d1

(* read_namespaced_deployment and the modification of the object read *)
ReadStep(t) ==
    LET th == threads[t]
        live == deployments[th.name]
    IN  /\ th.pc = "read"
        /\ threads' = [threads EXCEPT ![t] =
              IF live = None
              THEN Failed(th, IF th.op = "rollback_deployment"
                              THEN "rollback failed" ELSE "update failed", Some(th.name))
              ELSE [th EXCEPT
                      !.pc = "patch", !.read = live,
                      !.body = IF th.op = "rollback_deployment"
                               THEN Some(RolledBack(live[1], th.target_rs[1]))
                               ELSE Some(UpdateBody(live[1], th.image, th.replicas))]]
        /\ UNCHANGED <<deployments, replica_sets>>

(* The deployment changed since the thread read it, so the body of its     *)
(* patch carries an outdated metadata.resourceVersion.                     *)
Stale(t) == deployments[threads[t].name] # threads[t].read

(* patch_namespaced_deployment(body=deployment), taken by the cluster: the *)
(* deployment becomes the body and the controller rolls out its template.  *)
PatchStep(t) ==
    LET th == threads[t]
        live == deployments[th.name][1]
        body == th.body[1]
    IN  /\ th.pc = "patch"
        /\ deployments' = [deployments EXCEPT ![th.name] = Some(body)]
        /\ replica_sets' = IF body.template # live.template
                           THEN RolloutReplicaSets(replica_sets, th.name, body.template)
                           ELSE replica_sets
        /\ threads' = [threads EXCEPT ![t] =
                          [th EXCEPT !.pc = "done", !.stale = Stale(t),
                                     !.outcome = Returned("True")]]

(* patch_namespaced_deployment(body=deployment), refused by the cluster    *)
(* with 409 Conflict for the outdated resourceVersion: ApiException is     *)
(* re-raised as K8sDeploymentError.                                        *)
PatchConflict(t) ==
    LET th == threads[t]
    IN  /\ th.pc = "patch"
        /\ Stale(t)
        /\ threads' = [threads EXCEPT ![t] =
              [Failed(th, IF th.op = "rollback_deployment"
                          THEN "rollback failed" ELSE "update failed", Some(th.name))
                 EXCEPT !.stale = TRUE]]
        /\ UNCHANGED <<deployments, replica_sets>>

InitConcurrent ==
    /\ deployments = StartDeployments
    /\ replica_sets = StartReplicaSets
    /\ result = NoResult
    /\ docker = NoDockerCall
    /\ k8s = InitialK8s
    /\ \E t1 \in RollbackThreads, t2 \in RollbackThreads \cup UpdateThreads :
          threads = <<t1, t2>>

NextConcurrent ==
    \/ \E t \in 1..2 : ListStep(t) /\ UNCHANGED <<result, docker, k8s>>
    \/ \E t \in 1..2 : ReadStep(t) /\ UNCHANGED <<result, docker, k8s>>
    \/ \E t \in 1..2 : PatchStep(t) /\ UNCHANGED <<result, docker, k8s>>
    \/ \E t \in 1..2 : PatchConflict(t) /\ UNCHANGED <<result, docker, k8s>>

SpecConcurrent == InitConcurrent /\ [][NextConcurrent]_vars

(* One whole call of `thread` on the cluster `c`, nothing in between: the  *)
(* cluster it leaves.                                                      *)
Serial(c, thread) ==
    LET name == thread.name
        live == c.deployments[name]
        items == SelectSeq(c.replica_sets, LAMBDA rs : rs.labels = name)
        target_rs == IF NoItems(items) THEN None
                     ELSE SelectTarget(SortedRS(items), thread.revision)
        body == IF thread.op = "rollback_deployment"
                THEN RolledBack(live[1], target_rs[1])
                ELSE UpdateBody(live[1], thread.image, thread.replicas)
    IN  IF live = None \/ (thread.op = "rollback_deployment" /\ target_rs = None)
        THEN c
        ELSE [deployments |-> [c.deployments EXCEPT ![name] = Some(body)],
              replica_sets |-> IF body.template # live[1].template
                               THEN RolloutReplicaSets(c.replica_sets, name, body.template)
                               ELSE c.replica_sets]

(* ====================== ContainerManager (Docker) ====================== *)
(* src/src/docker_manager/container_manager.py.  Percentages are integers  *)
(* in hundredths of a percent (round(x, 2) * 100).                         *)
MaxCounter == 2     \* CPU usage counters 0..MaxCounter
MaxCores == 2       \* length of percpu_usage
MaxBlkio == 2       \* entries of io_service_bytes_recursive

ContainerIds == {"c1", "c2"}
(* What the daemon does for a container: it serves it, does not know it,   *)
(* fails on containers.get, or serves it and fails on container.stats.     *)
DaemonAnswers == {"ok", "NotFound", "APIError", "StatsAPIError"}

(* Samples of the system CPU counter: their differences are zero, negative, *)
(* 3 (a ratio that does not terminate) and 32 (an exact rounding tie).      *)
SystemCounters == {0, 3, 32, 35}
MemoryUsages == {0, 1, 512, 2048}
MemoryLimits == {0, 3, 1024}
Interfaces == {"eth0", "eth1"}
InterfaceCounters == {[rx_bytes |-> 0, tx_bytes |-> 0], [rx_bytes |-> 5, tx_bytes |-> 7]}
BlkioEntries ==
    {[op |-> "Read", value |-> 4], [op |-> "Write", value |-> 6],
     [op |-> "Total", value |-> 10]}

(* One side (cpu_stats or precpu_stats) of the raw statistics. *)
CpuStats(total_usage, percpu_usage, system_cpu_usage) ==
    [cpu_usage |-> Some([total_usage |-> total_usage, percpu_usage |-> percpu_usage]),
     system_cpu_usage |-> system_cpu_usage]

(* The raw statistics container.stats(stream=False) returns: a dictionary  *)
(* whose keys may be absent (None).  networks maps interface names to      *)
(* their counters; percpu_usage is given by its length.                    *)
RawStats(cpu_stats, precpu_stats, memory_stats, networks, blkio_stats) ==
    [cpu_stats |-> cpu_stats, precpu_stats |-> precpu_stats,
     memory_stats |-> memory_stats, networks |-> networks,
     blkio_stats |-> blkio_stats]

(* previous (1000, 10000), current (1500, 10500), 2 cores, 512 of 1024     *)
(* bytes, one interface eth0, one read and one write entry.                *)
TypicalStats ==
    RawStats(Some(CpuStats(Some(1500), Some(2), Some(10500))),
             Some(CpuStats(Some(1000), Some(2), Some(10000))),
             Some([usage |-> Some(512), limit |-> Some(1024)]),
             Some([i \in {"eth0"} |-> [rx_bytes |-> 5, tx_bytes |-> 7]]),
             Some([io_service_bytes_recursive |->
                     Some(<<[op |-> "Read", value |-> 4], [op |-> "Write", value |-> 6]>>)]))

(* Statistics that differ from the typical ones in their CPU part. *)
CpuFamily ==
    {[TypicalStats EXCEPT !.cpu_stats = Some(CpuStats(t1, n, s1)),
                          !.precpu_stats = Some(CpuStats(t0, n, s0))] :
        t0 \in Option(0..MaxCounter), t1 \in Option(0..MaxCounter),
        s0 \in Option(SystemCounters), s1 \in Option(SystemCounters),
        n \in Option(1..MaxCores)}
    \cup {[TypicalStats EXCEPT !.cpu_stats = None],
          [TypicalStats EXCEPT !.precpu_stats = None],
          [TypicalStats EXCEPT !.cpu_stats = None, !.precpu_stats = None],
          [TypicalStats EXCEPT !.cpu_stats =
               Some([cpu_usage |-> None, system_cpu_usage |-> Some(35)])]}

MemoryFamily ==
    {[TypicalStats EXCEPT !.memory_stats = Some([usage |-> u, limit |-> l])] :
        u \in Option(MemoryUsages), l \in Option(MemoryLimits)}
    \cup {[TypicalStats EXCEPT !.memory_stats = None]}

NetworkFamily ==
    {[TypicalStats EXCEPT !.networks = Some(nw)] :
        nw \in UNION {[ifs -> InterfaceCounters] : ifs \in SUBSET Interfaces}}
    \cup {[TypicalStats EXCEPT !.networks = None]}

SeqsUpTo(S, n) == UNION {[1..k -> S] : k \in 0..n}

BlkioFamily ==
    {[TypicalStats EXCEPT !.blkio_stats = Some([io_service_bytes_recursive |-> Some(l)])] :
        l \in SeqsUpTo(BlkioEntries, MaxBlkio)}
    \cup {[TypicalStats EXCEPT !.blkio_stats = None],
          [TypicalStats EXCEPT !.blkio_stats = Some([io_service_bytes_recursive |-> None])]}

AnyStats == CpuFamily \cup MemoryFamily \cup NetworkFamily \cup BlkioFamily

(* dict.get(key, default) on an optional field *)
Get(field, default) == IF field = None THEN default ELSE field[1]

(* round(num / den, 0) for den > 0: to the nearest integer, ties to even *)
RoundHalfEven(num, den) ==
    LET q == num \div den
        r == num - q * den
    IN  IF 2 * r < den THEN q
        ELSE IF 2 * r > den THEN q + 1
        ELSE IF q % 2 = 0 THEN q ELSE q + 1

(* if 'cpu_stats' in stats and 'precpu_stats' in stats *)
HasCpuStats(stats) == stats.cpu_stats # None /\ stats.precpu_stats # None

(* A subscript stats[...][...] of the CPU computation meets a missing key. *)
CpuCounterMissing(stats) ==
    LET cur == stats.cpu_stats[1]
        pre == stats.precpu_stats[1]
    IN  \/ cur.cpu_usage = None
        \/ cur.cpu_usage[1].total_usage = None
        \/ pre.cpu_usage = None
        \/ pre.cpu_usage[1].total_usage = None
        \/ cur.system_cpu_usage = None
        \/ pre.system_cpu_usage = None

CpuDelta(stats) ==
    stats.cpu_stats[1].cpu_usage[1].total_usage[1]
        - stats.precpu_stats[1].cpu_usage[1].total_usage[1]

SystemDelta(stats) ==
    stats.cpu_stats[1].system_cpu_usage[1] - stats.precpu_stats[1].system_cpu_usage[1]

(* len(stats['cpu_stats']['cpu_usage']['percpu_usage']) meets a missing key *)
PercpuMissing(stats) ==
    SystemDelta(stats) > 0 /\ stats.cpu_stats[1].cpu_usage[1].percpu_usage = None

(* Mutant: the core count left out of the product. *)
CpuPercentOneCore(stats) ==
    IF HasCpuStats(stats) /\ SystemDelta(stats) > 0
    THEN RoundHalfEven(CpuDelta(stats) * 100 * 100, SystemDelta(stats))
    ELSE 0

(* Mutant: a zero or negative system delta replaced by 1 instead of skipped. *)
CpuPercentDeltaAtLeast1(stats) ==
    IF HasCpuStats(stats)
    THEN IF SystemDelta(stats) > 0
         THEN RoundHalfEven(CpuDelta(stats)
                              * stats.cpu_stats[1].cpu_usage[1].percpu_usage[1] * 100 * 100,
                            SystemDelta(stats))
         ELSE CpuDelta(stats) * 100 * 100
    ELSE 0

(* round(cpu_percent, 2), where the counters are present *)
CpuPercent(stats) ==
    IF HasCpuStats(stats) /\ SystemDelta(stats) > 0
    THEN RoundHalfEven(CpuDelta(stats)
                         * stats.cpu_stats[1].cpu_usage[1].percpu_usage[1] * 100 * 100,
                       SystemDelta(stats))
    ELSE 0

MemoryUsage(stats) == Get(Get(stats.memory_stats, [usage |-> None, limit |-> None]).usage, 0)
MemoryLimit(stats) == Get(Get(stats.memory_stats, [usage |-> None, limit |-> None]).limit, 0)

(* Mutant: a container without a limit reported as full. *)
MemoryPercentFull(stats) ==
    IF MemoryLimit(stats) > 0
    THEN RoundHalfEven(MemoryUsage(stats) * 100 * 100, MemoryLimit(stats))
    ELSE 10000

(* round(memory_usage / memory_limit * 100 if memory_limit > 0 else 0, 2) *)
MemoryPercent(stats) ==
    IF MemoryLimit(stats) > 0
    THEN RoundHalfEven(MemoryUsage(stats) * 100 * 100, MemoryLimit(stats))
    ELSE 0

(* stats.get('networks', {}).get('eth0', {}).get(counter, 0) *)
NetworkRx(stats) ==
    LET nw == Get(stats.networks, <<>>)
    IN  IF "eth0" \in DOMAIN nw THEN nw["eth0"].rx_bytes ELSE 0
NetworkTx(stats) ==
    LET nw == Get(stats.networks, <<>>)
    IN  IF "eth0" \in DOMAIN nw THEN nw["eth0"].tx_bytes ELSE 0

(* stats.get('blkio_stats', {}).get('io_service_bytes_recursive', default) *)
BlkioList(stats, default) ==
    Get(Get(stats.blkio_stats, [io_service_bytes_recursive |-> None])
            .io_service_bytes_recursive, default)

(* ...get('io_service_bytes_recursive', [{}])[0] meets an empty list *)
BlkioIndexError(stats) == BlkioList(stats, <<[op |-> "", value |-> 0]>>) = <<>>

(* [0].get('value', 0) *)
BlockRead(stats) == BlkioList(stats, <<[op |-> "", value |-> 0]>>)[1].value

(* [-1].get('value', 0) if len(...get('io_service_bytes_recursive', [])) > 1 else 0 *)
BlockWrite(stats) ==
    LET l == BlkioList(stats, <<>>)
    IN  IF Len(l) > 1 THEN l[Len(l)].value ELSE 0

(* The dictionary get_container_stats returns. *)
StatsReport(stats) ==
    [cpu_percent |-> CpuPercent(stats),
     memory_usage |-> MemoryUsage(stats),
     memory_limit |-> MemoryLimit(stats),
     memory_percent |-> MemoryPercent(stats),
     network_rx |-> NetworkRx(stats),
     network_tx |-> NetworkTx(stats),
     block_read |-> BlockRead(stats),
     block_write |-> BlockWrite(stats)]

(* An exception leaving a ContainerManager method. *)
DockerError(type, text, id) == [type |-> type, text |-> text, container_id |-> id]

(* The exception the computation of get_container_stats raises on `stats`, *)
(* None when it raises none: a missing key or an empty list is caught by   *)
(* neither except clause.                                                  *)
StatsException(stats, id) ==
    IF HasCpuStats(stats) /\ (CpuCounterMissing(stats) \/ PercpuMissing(stats))
    THEN Some(DockerError("KeyError", "", id))
    ELSE IF BlkioIndexError(stats)
    THEN Some(DockerError("IndexError", "", id))
    ELSE None

(* get_container_stats(container_id): docker.answer is what the daemon     *)
(* answers for the container and docker.stats the statistics it gives when *)
(* the container exists.                                                   *)
GetContainerStats(container_id) ==
    LET call == [docker EXCEPT !.op = "get_container_stats",
                               !.container_id = container_id]
        stats == docker.stats[1]
    IN  /\ docker.op = "none"
        /\ docker' =
             IF docker.answer = "NotFound"
             THEN [call EXCEPT !.raised =
                     Some(DockerError("DockerContainerError", "container does not exist",
                                      container_id))]
             ELSE IF docker.answer \in {"APIError", "StatsAPIError"}
             THEN [call EXCEPT !.raised =
                     Some(DockerError("DockerContainerError", "get container stats failed",
                                      container_id))]
             ELSE IF StatsException(stats, container_id) # None
             THEN [call EXCEPT !.raised = StatsException(stats, container_id)]
             ELSE [call EXCEPT !.report = Some(StatsReport(stats))]

(* get_container(container_id): the container's details with its raw       *)
(* statistics, None when container.stats failed.                           *)
GetContainer(container_id) ==
    LET call == [docker EXCEPT !.op = "get_container", !.container_id = container_id]
    IN  /\ docker.op = "none"
        /\ docker' =
             IF docker.answer = "NotFound"
             THEN [call EXCEPT !.raised =
                     Some(DockerError("DockerContainerError", "container does not exist",
                                      container_id))]
             ELSE IF docker.answer = "APIError"
             THEN [call EXCEPT !.raised =
                     Some(DockerError("DockerContainerError", "get container info failed",
                                      container_id))]
             ELSE [call EXCEPT !.info =
                     Some([id |-> container_id,
                           stats |-> IF docker.answer = "StatsAPIError"
                                     THEN None ELSE docker.stats])]

(* The state the specification of ContainerManager leaves alone. *)
OnlyDocker == UNCHANGED <<deployments, replica_sets, result, threads, k8s>>

(* The daemon holds any statistics; no method has been called yet. *)
InitDocker ==
    /\ deployments = [n \in Names |-> None]
    /\ replica_sets = <<>>
    /\ result = NoResult
    /\ threads = NoThreads
    /\ k8s = InitialK8s
    /\ \E answer \in DaemonAnswers, stats \in AnyStats :
          docker = [NoDockerCall EXCEPT !.answer = answer, !.stats = Some(stats)]

NextDocker ==
    \/ \E id \in ContainerIds : GetContainerStats(id) /\ OnlyDocker
    \/ \E id \in ContainerIds : GetContainer(id) /\ OnlyDocker

SpecDocker == InitDocker /\ [][NextDocker]_vars

(* ============================ namespaces =============================== *)
(* src/src/k8s_manager/namespace_manager.py, K8sManager.delete_namespace   *)
(* and the DELETE /namespaces/{namespace} route.  The cluster accepts a    *)
(* delete request for an existing namespace or refuses it (403: its own    *)
(* admission rules, which the repository does not decide).                 *)
ClusterAnswers == {"accept", "forbid"}

(* Mutant: the system-namespace test left out. *)
ProtectedNever(name, force) == FALSE

(* if name in system_namespaces and not force *)
Protected(name, force) == name \in system_namespaces /\ ~force

(* core_v1.delete_namespace(name, body): grace_period_seconds is 0 when    *)
(* forced, otherwise not set.                                              *)
DeleteRequest(name, force) ==
    [call |-> "delete_namespace", name |-> name,
     grace_period_seconds |-> IF force THEN Some(0) ELSE None]

(* What the cluster does with a delete request: the HTTP status. *)
ClusterDelete(namespaces, name, answer) ==
    IF name \notin namespaces THEN 404
    ELSE IF answer = "forbid" THEN 403 ELSE 200

(* NamespaceManager.delete_namespace(name, force) on `namespaces`: the     *)
(* requests it sends, its outcome and the namespaces afterwards.           *)
NamespaceDelete(namespaces, name, force, answer) ==
    IF Protected(name, force)
    THEN [requests |-> <<>>,
          outcome |-> K8sOutcome("K8sNamespaceError", "system namespace", None),
          namespaces |-> namespaces]
    ELSE LET status == ClusterDelete(namespaces, name, answer)
         IN  [requests |-> <<DeleteRequest(name, force)>>,
              outcome |-> IF status = 404
                          THEN K8sOutcome("K8sNamespaceError", "does not exist", None)
                          ELSE IF status = 403
                          THEN K8sOutcome("K8sNamespaceError", "delete failed", None)
                          ELSE K8sOutcome("return", "True", None),
              namespaces |-> IF status = 200 THEN namespaces \ {name} ELSE namespaces]

K8sCall(op, name, force) ==
    [NoK8sCall EXCEPT !.op = op, !.name = name, !.force = force,
                      !.before = k8s.namespaces,
                      !.cluster_before = k8s.cluster_name,
                      !.namespace_before = k8s.current_namespace,
                      !.handles_before = k8s.handles]

(* NamespaceManager.delete_namespace(name, force) *)
NsDeleteNamespace(name, force, answer) ==
    LET r == NamespaceDelete(k8s.namespaces, name, force, answer)
    IN  k8s' = [k8s EXCEPT
                  !.namespaces = r.namespaces,
                  !.call = [K8sCall("NamespaceManager.delete_namespace", name, force)
                              EXCEPT !.requests = r.requests, !.outcome = r.outcome]]

(* K8sManager.delete_namespace(name): no force argument, no test *)
K8sDeleteNamespace(name, answer) ==
    LET status == ClusterDelete(k8s.namespaces, name, answer)
    IN  k8s' = [k8s EXCEPT
                  !.namespaces = IF status = 200 THEN @ \ {name} ELSE @,
                  !.call = [K8sCall("K8sManager.delete_namespace", name, FALSE)
                              EXCEPT !.requests = <<DeleteRequest(name, FALSE)>>,
                                     !.outcome =
                                        IF status = 200
                                        THEN K8sOutcome("return", "True", None)
                                        ELSE K8sOutcome("K8sManagerError",
                                                        "delete failed", None)]]

(* DELETE /namespaces/{namespace}?force=: a K8sManagerError becomes 400 *)
ApiDeleteNamespace(name, force, answer) ==
    LET r == NamespaceDelete(k8s.namespaces, name, force, answer)
    IN  k8s' = [k8s EXCEPT
                  !.namespaces = r.namespaces,
                  !.call = [K8sCall("DELETE /namespaces", name, force)
                              EXCEPT !.requests = r.requests,
                                     !.outcome =
                                        IF r.outcome.kind = "return"
                                        THEN K8sOutcome("return", "deleted", Some(200))
                                        ELSE K8sOutcome("HTTPException", r.outcome.text,
                                                        Some(400))]]

(* NamespaceManager.create_namespace(name) *)
NsCreateNamespace(name) ==
    k8s' = [k8s EXCEPT
              !.namespaces = @ \cup {name},
              !.call = [K8sCall("NamespaceManager.create_namespace", name, FALSE)
                          EXCEPT !.requests = <<[call |-> "create_namespace", name |-> name,
                                                 grace_period_seconds |-> None]>>,
                                 !.outcome =
                                    IF name \in k8s.namespaces
                                    THEN K8sOutcome("K8sNamespaceError", "already exists",
                                                    None)
                                    ELSE K8sOutcome("return", name, None)]]

(* The state the specifications of the Kubernetes managers leave alone. *)
OnlyK8s == UNCHANGED <<deployments, replica_sets, result, threads, docker>>

InitK8s ==
    /\ deployments = [n \in Names |-> None]
    /\ replica_sets = <<>>
    /\ result = NoResult
    /\ threads = NoThreads
    /\ docker = NoDockerCall
    /\ k8s = InitialK8s

NextNamespaces ==
    \/ \E name \in NamespaceNames, force \in BOOLEAN, answer \in ClusterAnswers :
          NsDeleteNamespace(name, force, answer) /\ OnlyK8s
    \/ \E name \in NamespaceNames, answer \in ClusterAnswers :
          K8sDeleteNamespace(name, answer) /\ OnlyK8s
    \/ \E name \in NamespaceNames, force \in BOOLEAN, answer \in ClusterAnswers :
          ApiDeleteNamespace(name, force, answer) /\ OnlyK8s
    \/ \E name \in NamespaceNames : NsCreateNamespace(name) /\ OnlyK8s

SpecNamespaces == InitK8s /\ [][NextNamespaces]_vars

(* ============================= K8sManager ============================== *)
(* src/src/k8s_manager/k8s_client.py and the /current-namespace and /pods  *)
(* routes of src/src/api/k8s_api.py.                                       *)
(* kubernetes.clusters of the configuration: name -> configured namespace *)
ClusterNamespace ==
    [c \in {"local-cluster", "staging"} |->
        IF c = "local-cluster" THEN "default" ELSE "dev"]
ConfiguredClusters == DOMAIN ClusterNamespace
ClusterNames == ConfiguredClusters \cup {"unknown"}
DefaultCluster == "local-cluster"

(* What happens when _connect loads the kubeconfig and probes the cluster. *)
ConnectBehaviours == {"ok", "load_fails", "probe_fails"}

(* Namespace arguments: existing ones and one the cluster does not have. *)
NamespaceArgs == {"default", "dev", "kube-system", "missing"}

Manager(cluster_name, current_namespace, handles) ==
    [cluster_name |-> cluster_name, current_namespace |-> current_namespace,
     handles |-> handles]

(* K8sManager._connect on the manager m (self.cluster_name already set):   *)
(* the manager afterwards and whether it returned (ok) or raised           *)
(* K8sConnectionError.                                                     *)
Connect(m, behaviour) ==
    IF m.cluster_name \notin ConfiguredClusters
    THEN [m |-> m, ok |-> FALSE]
    ELSE LET m1 == [m EXCEPT !.current_namespace = ClusterNamespace[m.cluster_name]]
         IN  IF behaviour = "load_fails"
             THEN [m |-> m1, ok |-> FALSE]
             ELSE [m |-> [m1 EXCEPT !.handles = Some(m.cluster_name)],
                   ok |-> behaviour = "ok"]

(* K8sManager(config_manager): the default cluster, namespace 'default',   *)
(* no handles, then _connect.                                              *)
NewManager(behaviour) == Connect(Manager(DefaultCluster, "default", None), behaviour)

(* K8sManager.switch_cluster(cluster_name) *)
SwitchCluster(cluster_name, behaviour) ==
    LET r == Connect(Manager(cluster_name, k8s.current_namespace, k8s.handles),
                     behaviour)
    IN  k8s' = [k8s EXCEPT
                  !.cluster_name = r.m.cluster_name,
                  !.current_namespace = r.m.current_namespace,
                  !.handles = r.m.handles,
                  !.call = [K8sCall("switch_cluster", cluster_name, FALSE) EXCEPT
                              !.outcome = IF r.ok
                                          THEN K8sOutcome("return", "", None)
                                          ELSE K8sOutcome("K8sConnectionError",
                                                          "connect failed", None)]]

(* K8sManager.set_namespace(namespace) *)
SetNamespace(namespace) ==
    LET exists == namespace \in k8s.namespaces
    IN  k8s' = [k8s EXCEPT
                  !.current_namespace = IF exists THEN namespace ELSE @,
                  !.call = [K8sCall("set_namespace", namespace, FALSE) EXCEPT
                              !.requests = <<[call |-> "read_namespace", name |-> namespace,
                                              grace_period_seconds |-> None]>>,
                              !.outcome = IF exists
                                          THEN K8sOutcome("return", "", None)
                                          ELSE K8sOutcome("K8sManagerError",
                                                          "does not exist", None)]]

(* POST /current-namespace: get_k8s_manager() builds a new K8sManager, on  *)
(* which set_namespace is called; the manager is dropped with the request. *)
ApiSetCurrentNamespace(namespace, behaviour) ==
    LET manager == NewManager(behaviour)
        exists == namespace \in k8s.namespaces
        call == K8sCall("POST /current-namespace", namespace, FALSE)
    IN  IF ~manager.ok
        THEN k8s' = [k8s EXCEPT !.call =
                       [call EXCEPT !.outcome =
                          K8sOutcome("HTTPException", "connect failed", Some(500))]]
        ELSE IF ~exists
        THEN k8s' = [k8s EXCEPT !.call =
                       [call EXCEPT !.outcome =
                          K8sOutcome("HTTPException", "does not exist", Some(400))]]
        ELSE k8s' = [k8s EXCEPT
                       !.posted = Some(namespace),
                       !.call = [call EXCEPT !.outcome =
                                   K8sOutcome("return", namespace, Some(200))]]

(* GET /current-namespace: the current_namespace of a new K8sManager *)
ApiGetCurrentNamespace(behaviour) ==
    LET manager == NewManager(behaviour)
        call == K8sCall("GET /current-namespace", "", FALSE)
    IN  k8s' = [k8s EXCEPT !.call =
                  [call EXCEPT !.outcome =
                     IF manager.ok
                     THEN K8sOutcome("return", manager.m.current_namespace, Some(200))
                     ELSE K8sOutcome("HTTPException", "connect failed", Some(500))]]

(* GET /pods?namespace=: PodManager.list_pods on a new K8sManager lists    *)
(* `namespace or k8s_manager.current_namespace`; the outcome names the     *)
(* namespace listed.                                                       *)
ApiListPods(namespace, behaviour) ==
    LET manager == NewManager(behaviour)
        listed == IF namespace # None THEN namespace[1] ELSE manager.m.current_namespace
        call == K8sCall("GET /pods", "", FALSE)
    IN  k8s' = [k8s EXCEPT !.call =
                  IF manager.ok
                  THEN [call EXCEPT
                          !.name = IF namespace = None THEN "" ELSE namespace[1],
                          !.requests = <<[call |-> "list_namespaced_pod", name |-> listed,
                                          grace_period_seconds |-> None]>>,
                          !.outcome = K8sOutcome("return", listed, Some(200))]
                  ELSE [call EXCEPT !.outcome =
                          K8sOutcome("HTTPException", "connect failed", Some(500))]]

NextManager ==
    \/ \E c \in ClusterNames, b \in ConnectBehaviours : SwitchCluster(c, b) /\ OnlyK8s
    \/ \E n \in NamespaceArgs : SetNamespace(n) /\ OnlyK8s
    \/ \E n \in NamespaceArgs, b \in ConnectBehaviours :
          ApiSetCurrentNamespace(n, b) /\ OnlyK8s
    \/ \E b \in ConnectBehaviours : ApiGetCurrentNamespace(b) /\ OnlyK8s
    \/ \E n \in Option(NamespaceArgs \ {"missing"}), b \in ConnectBehaviours :
          ApiListPods(n, b) /\ OnlyK8s

SpecManager == InitK8s /\ [][NextManager]_vars

(* ================= Docker system, images, volumes, routes ============== *)
(* src/src/docker_manager/docker_client.py, image_manager.py,              *)
(* volume_manager.py and the routes of src/src/api/docker_api.py.          *)
Repositories == {"nginx", "redis"}
Tags == {"latest", "1.0", "2.0"}
VolumeNames == {"data", "logs"}

(* One request: the SDK (or file) call, its string arguments, the mount    *)
(* mode it asks for and whether it passes force=True.                      *)
DaemonRequest(call, target, mode, force) ==
    [call |-> call, target |-> target, mode |-> mode, force |-> force]

(* DockerManager(config_manager): _connect pings the daemon; `connect` is  *)
(* "ok" or "unreachable" (DockerConnectionError).                          *)
DaemonConnects == {"ok", "unreachable"}

(* --- GET /containers/{container_id} --- *)
(* The error ContainerManager.get_container raises on the daemon's answer. *)
GetContainerError(container_id, answer) ==
    IF answer = "NotFound"
    THEN Some(DockerError("DockerContainerError", "container does not exist",
                          container_id))
    ELSE IF answer = "APIError"
    THEN Some(DockerError("DockerContainerError", "get container info failed",
                          container_id))
    ELSE None

(* every DockerManagerError, DockerConnectionError included, becomes 404 *)
ApiGetContainer(container_id, connect, answer) ==
    LET call == [NoDockerCall EXCEPT !.op = "GET /containers/{container_id}",
                                     !.container_id = container_id,
                                     !.answer = IF connect = "ok" THEN answer ELSE connect]
        raised == IF connect = "unreachable"
                  THEN Some(DockerError("DockerConnectionError", "connect failed",
                                        container_id))
                  ELSE GetContainerError(container_id, answer)
    IN  docker' =
          IF raised # None
          THEN [call EXCEPT !.raised = raised, !.status = Some(404)]
          ELSE [call EXCEPT !.info = Some([id |-> container_id, stats |-> None]),
                            !.status = Some(200)]

(* --- ImageManager.pull_image --- *)
(* pull_image is a generator function: calling it runs none of its body;   *)
(* the body (client.api.pull and the lines it yields) runs when the        *)
(* generator is iterated.  The requests made and the error raised.         *)
PullImage(repository, tag, answer, iterated) ==
    IF ~iterated
    THEN [requests |-> <<>>, raised |-> None]
    ELSE [requests |-> <<DaemonRequest("api.pull", <<repository, tag>>, "", FALSE)>>,
          raised |-> IF answer = "APIError"
                     THEN Some(DockerError("DockerImageError", "pull failed", repository))
                     ELSE None]

(* a caller that consumes the generator: for line in pull_image(...) *)
PullImageIterated(repository, tag, answer) ==
    LET r == PullImage(repository, tag, answer, TRUE)
    IN  docker' = [NoDockerCall EXCEPT !.op = "pull_image", !.answer = answer,
                                       !.target = <<repository, tag>>,
                                       !.requests = r.requests, !.raised = r.raised]

(* POST /images/pull: the generator is created and dropped *)
ApiPullImage(repository, tag, connect, answer) ==
    LET call == [NoDockerCall EXCEPT !.op = "POST /images/pull",
                                     !.answer = IF connect = "ok" THEN answer ELSE connect,
                                     !.target = <<repository, tag>>]
        r == PullImage(repository, tag, answer, FALSE)
    IN  docker' =
          IF connect = "unreachable"
          THEN [call EXCEPT !.raised = Some(DockerError("DockerConnectionError",
                                                        "connect failed", repository)),
                            !.status = Some(400)]
          ELSE IF r.raised # None
          THEN [call EXCEPT !.requests = r.requests, !.raised = r.raised,
                            !.status = Some(400)]
          ELSE [call EXCEPT !.requests = r.requests, !.status = Some(200)]

(* --- DockerManager.cleanup_system --- *)
(* the categories in the order of the four `if prune_...:` blocks *)
Categories == <<"containers", "images", "volumes", "networks">>
CategorySet == {Categories[i] : i \in 1..Len(Categories)}
AnyFlags == [CategorySet -> BOOLEAN]
(* prune_containers=True, prune_images=True, prune_volumes=False, prune_networks=True *)
DefaultFlags == [c \in CategorySet |-> c # "volumes"]
(* The prune the daemon answers with APIError ("none": it answers all). *)
PruneFailures == CategorySet \cup {"none"}

(* Mutant: every category pruned whatever its flag. *)
SelectedAlways(flags, category) == TRUE

(* if prune_<category>: *)
Selected(flags, category) == flags[category]

RECURSIVE PruneFrom(_, _, _, _)
(* The blocks from the i-th on, `done` being the prunes made so far: the   *)
(* requests made, the keys of `result` and whether APIError was raised.    *)
PruneFrom(i, flags, fail, done) ==
    IF i > Len(Categories)
    THEN [requests |-> done.requests, keys |-> done.keys, failed |-> FALSE]
    ELSE IF ~Selected(flags, Categories[i])
    THEN PruneFrom(i + 1, flags, fail, done)
    ELSE LET requests == Append(done.requests,
                                DaemonRequest("prune", <<Categories[i]>>, "", FALSE))
         IN  IF fail = Categories[i]
             THEN [requests |-> requests, keys |-> done.keys, failed |-> TRUE]
             ELSE PruneFrom(i + 1, flags, fail,
                            [requests |-> requests,
                             keys |-> done.keys \cup {Categories[i]}])

(* cleanup_system(prune_containers, prune_images, prune_volumes, prune_networks) *)
CleanupSystem(flags, fail) ==
    LET r == PruneFrom(1, flags, fail, [requests |-> <<>>, keys |-> {}])
        call == [NoDockerCall EXCEPT !.op = "cleanup_system", !.answer = fail,
                                     !.flags = flags, !.requests = r.requests]
    IN  docker' =
          IF r.failed
          THEN [call EXCEPT !.raised = Some(DockerError("DockerManagerError",
                                                        "cleanup failed", ""))]
          ELSE [call EXCEPT !.keys = r.keys]

(* POST /system/prune: cleanup_system() with its defaults *)
ApiPruneSystem(connect, fail) ==
    LET r == PruneFrom(1, DefaultFlags, fail, [requests |-> <<>>, keys |-> {}])
        call == [NoDockerCall EXCEPT !.op = "POST /system/prune",
                                     !.answer = IF connect = "ok" THEN fail ELSE connect,
                                     !.flags = DefaultFlags]
    IN  docker' =
          IF connect = "unreachable"
          THEN [call EXCEPT !.raised = Some(DockerError("DockerConnectionError",
                                                        "connect failed", "")),
                            !.status = Some(400)]
          ELSE IF r.failed
          THEN [call EXCEPT !.requests = r.requests,
                            !.raised = Some(DockerError("DockerManagerError",
                                                        "cleanup failed", "")),
                            !.status = Some(400)]
          ELSE [call EXCEPT !.requests = r.requests, !.keys = r.keys,
                            !.status = Some(200)]

(* --- VolumeManager.backup_volume --- *)
(* the steps of the inner try block, in order *)
BackupSteps == <<"start", "wait", "open", "get_archive", "write">>
(* The step that raises ("none": no step does). *)
BackupFailures == {"none", "create", "remove"} \cup {BackupSteps[i] : i \in 1..Len(BackupSteps)}

(* The inner try block up to the step that raises. *)
BackupBody(volume_name, fail) ==
    LET last == IF \E i \in 1..Len(BackupSteps) : BackupSteps[i] = fail
                THEN CHOOSE i \in 1..Len(BackupSteps) : BackupSteps[i] = fail
                ELSE Len(BackupSteps)
    IN  [i \in 1..last |-> DaemonRequest(BackupSteps[i], <<volume_name>>, "", FALSE)]

(* Mutant: the removal after the last step instead of in `finally`. *)
BackupRequestsNoFinally(volume_name, fail) ==
    <<DaemonRequest("containers.create", <<volume_name>>, "ro", FALSE)>>
    \o (IF fail = "create" THEN <<>>
        ELSE BackupBody(volume_name, fail)
             \o (IF fail \in {"none", "remove"}
                 THEN <<DaemonRequest("remove", <<volume_name>>, "", TRUE)>>
                 ELSE <<>>))

(* containers.create with the volume mounted 'ro', the inner try block,    *)
(* and container.remove(force=True) in its `finally`.                      *)
BackupRequests(volume_name, fail) ==
    <<DaemonRequest("containers.create", <<volume_name>>, "ro", FALSE)>>
    \o (IF fail = "create" THEN <<>>
        ELSE BackupBody(volume_name, fail)
             \o <<DaemonRequest("remove", <<volume_name>>, "", TRUE)>>)

(* backup_volume(volume_name, backup_path) *)
BackupVolume(volume_name, fail) ==
    LET call == [NoDockerCall EXCEPT !.op = "backup_volume", !.answer = fail,
                                     !.target = <<volume_name>>,
                                     !.requests = BackupRequests(volume_name, fail)]
    IN  docker' =
          IF fail = "none" THEN call
          ELSE [call EXCEPT !.raised = Some(DockerError("DockerManagerError",
                                                        "backup failed", volume_name))]

NextDaemon ==
    \/ \E id \in ContainerIds, connect \in DaemonConnects,
          answer \in {"ok", "NotFound", "APIError"} :
          ApiGetContainer(id, connect, answer) /\ OnlyDocker
    \/ \E rp \in Repositories, tag \in Tags, answer \in {"ok", "APIError"} :
          PullImageIterated(rp, tag, answer) /\ OnlyDocker
    \/ \E rp \in Repositories, tag \in Tags, connect \in DaemonConnects,
          answer \in {"ok", "APIError"} :
          ApiPullImage(rp, tag, connect, answer) /\ OnlyDocker
    \/ \E flags \in AnyFlags, fail \in PruneFailures : CleanupSystem(flags, fail) /\ OnlyDocker
    \/ \E connect \in DaemonConnects, fail \in PruneFailures :
          ApiPruneSystem(connect, fail) /\ OnlyDocker
    \/ \E v \in VolumeNames, fail \in BackupFailures : BackupVolume(v, fail) /\ OnlyDocker

SpecDaemon == InitK8s /\ [][NextDaemon]_vars

(* ============================== claims ================================= *)
IsRollback == result.op = "rollback_deployment"
IsHistory == result.op = "get_deployment_history"
Succeeded == result.outcome.kind = "return"

RevisionList(s) == [i \in 1..Len(s) |-> RevisionOf(s[i])]
HasRevision(s, n) == \E i \in 1..Len(s) : RevisionOf(s[i]) = n
Descending(revs) == \A i, j \in 1..Len(revs) : i < j => revs[i] >= revs[j]

(* The code's outcomes for the failure modes. *)
NoHistoryOutcome(name) == Raised("no ReplicaSet of Deployment", Some(name))
NoTargetOutcome == Raised("no ReplicaSet of target revision", None)

(* The live deployment is as it was when the operation was called. *)
DeploymentUntouched == deployments[result.name] = result.before

(* ------------------------------- C1 ------------------------------------ *)
(* C1: with a specified target revision n (any n >= 0, 0 included) on a    *)
(* non-empty collection, the rollback selects the first record of the      *)
(* descending-sorted order whose revision is n, and fails with the         *)
(* revision-not-found outcome if and only if no record has revision n.     *)
C1_SpecifiedTargetSelected ==
    (IsRollback /\ result.revision # None /\ result.items # <<>>) =>
        LET n == result.revision[1]
            sorted_rs == result.sorted_rs
        IN  /\ (result.outcome = NoTargetOutcome) <=> ~HasRevision(result.items, n)
            /\ HasRevision(result.items, n) =>
                 \E i \in 1..Len(sorted_rs) :
                    /\ RevisionOf(sorted_rs[i]) = n
                    /\ \A j \in 1..(i - 1) : RevisionOf(sorted_rs[j]) # n
                    /\ result.target_rs = Some(sorted_rs[i])

(* ------------------------------- C2 ------------------------------------ *)
(* C2: with the target revision omitted and at least two records, the      *)
(* rollback target is the element at index 1 (the second) of the records   *)
(* sorted by revision number descending, and a successful rollback gives   *)
(* the deployment that record's template.                                  *)
C2_PreviousIsIndex1 ==
    (IsRollback /\ result.revision = None /\ Len(result.items) >= 2) =>
        /\ Len(result.sorted_rs) = Len(result.items)
        /\ Descending(RevisionList(result.sorted_rs))
        /\ result.target_rs = Some(result.sorted_rs[2])
        /\ Succeeded => deployments[result.name][1].template = result.sorted_rs[2].template

(* C2 witness: the two-record collection with revisions {3, 1}, no target *)
(* given, the revision-1 record selected and applied.                      *)
C2_Witness ==
    /\ IsRollback /\ result.revision = None /\ Succeeded
    /\ RevisionList(result.items) \in {<<3, 1>>, <<1, 3>>}
    /\ RevisionOf(result.target_rs[1]) = 1
    /\ result.before[1].template # result.target_rs[1].template

(* ------------------------------- C3 ------------------------------------ *)
(* C3: with the target revision omitted and exactly one record, the        *)
(* rollback fails with the no-target error, no record is selected and the  *)
(* deployment is left as it was.                                           *)
C3_SingleRecordFails ==
    (IsRollback /\ result.revision = None /\ Len(result.items) = 1) =>
        /\ result.outcome = NoTargetOutcome
        /\ result.target_rs = None
        /\ DeploymentUntouched

(* C3 witness: an implicit rollback of an existing deployment over one     *)
(* record.                                                                 *)
C3_Witness ==
    /\ IsRollback /\ result.revision = None /\ Len(result.items) = 1
    /\ result.before # None
    /\ ~Succeeded

(* ------------------------------- C4 ------------------------------------ *)
(* C4: on an empty record collection the rollback fails with the           *)
(* no-history error, whatever the target revision (given or omitted), and  *)
(* selects nothing.                                                        *)
C4_EmptyFails ==
    (IsRollback /\ result.items = <<>>) =>
        /\ result.outcome = NoHistoryOutcome(result.name)
        /\ result.target_rs = None
        /\ DeploymentUntouched

(* C4 witness: a rollback to a given revision of an existing deployment    *)
(* with no records.                                                        *)
C4_Witness ==
    /\ IsRollback /\ result.items = <<>>
    /\ result.revision # None /\ result.revision[1] > 0
    /\ result.before # None
    /\ ~Succeeded

(* ------------------------------- C5 ------------------------------------ *)
(* The failure mode of a rollback over `items` with target `revision`.     *)
FailureMode(items, revision) ==
    IF items = <<>> THEN "NoHistoryAvailable"
    ELSE IF revision # None /\ ~HasRevision(items, revision[1]) THEN "RevisionNotFound"
    ELSE IF revision = None /\ Len(items) < 2 THEN "NoPreviousRevision"
    ELSE "none"

(* C5: the three failure modes have mutually distinguishable outcomes (a   *)
(* call failing in another mode never produces the outcome this call       *)
(* produced), and the revision-not-found outcome carries the requested     *)
(* revision number.                                                        *)
C5_FailuresDistinguishable ==
    IsRollback =>
        LET mode == FailureMode(result.items, result.revision)
        IN  /\ mode # "none" =>
                 \A n \in Names, rev \in Option(Revisions) :
                    LET other == FailureMode(ListReplicaSets(n), rev)
                    IN  (other # "none" /\ other # mode) =>
                           RollbackOutcome(n, ListReplicaSets(n), rev, deployments[n])
                              # result.outcome
            /\ mode = "RevisionNotFound" =>
                 /\ ~Succeeded
                 /\ result.outcome.revision_arg = result.revision

(* ------------------------------- C6 ------------------------------------ *)
(* C6: the history get_deployment_history returns is ordered by revision   *)
(* number non-increasing.                                                  *)
C6_HistoryDescending ==
    IsHistory =>
        \A i, j \in 1..Len(result.history) :
            i < j => result.history[i].revision >= result.history[j].revision

(* C6 witness: a history of three records listed in ascending revision     *)
(* order.                                                                  *)
C6_Witness ==
    /\ IsHistory
    /\ RevisionList(result.items) = <<1, 2, 3>>
    /\ Len(result.history) = 3

(* ------------------------------- C7 ------------------------------------ *)
(* The position in the listed items of the record created at `stamp`.      *)
InputPosition(stamp) == CHOOSE i \in 1..Len(result.items) : result.items[i].uid = stamp

(* C7: the descending sort is stable, in the history and in the rollback   *)
(* selection: records with the same revision number keep their relative    *)
(* input order.                                                            *)
C7_SortStable ==
    /\ IsHistory =>
         \A i, j \in 1..Len(result.history) :
            (i < j /\ result.history[i].revision = result.history[j].revision) =>
                InputPosition(result.history[i].creation_timestamp)
                    < InputPosition(result.history[j].creation_timestamp)
    /\ IsRollback =>
         \A i, j \in 1..Len(result.sorted_rs) :
            (i < j /\ RevisionOf(result.sorted_rs[i]) = RevisionOf(result.sorted_rs[j])) =>
                InputPosition(result.sorted_rs[i].uid) < InputPosition(result.sorted_rs[j].uid)

(* C7 witness: input revisions [1, 2, 2] give the history [2, 2, 1].       *)
C7_Witness ==
    /\ IsHistory
    /\ RevisionList(result.items) = <<1, 2, 2>>
    /\ [i \in 1..Len(result.history) |-> result.history[i].revision] = <<2, 2, 1>>
    /\ result.history[1].creation_timestamp = result.items[2].uid
    /\ result.history[2].creation_timestamp = result.items[3].uid

(* ------------------------------- C8 ------------------------------------ *)
BagOfSeq(s) ==
    [x \in {s[i] : i \in 1..Len(s)} |-> Cardinality({i \in 1..Len(s) : s[i] = x})]

(* C8: the history is a permutation of the listed records (one entry per   *)
(* record, none dropped or repeated), is returned without error, is empty  *)
(* for an empty collection and is the single record for a collection of    *)
(* one.                                                                    *)
C8_HistoryPermutation ==
    IsHistory =>
        /\ Succeeded
        /\ Len(result.history) = Len(result.items)
        /\ BagOfSeq(result.history)
             = BagOfSeq([i \in 1..Len(result.items) |-> HistoryEntry(result.items[i])])
        /\ Len(result.items) = 1 => result.history = <<HistoryEntry(result.items[1])>>

(* C8 witness: a history over three records, one of them without a         *)
(* revision annotation and two sharing a revision number.                  *)
C8_Witness ==
    /\ IsHistory
    /\ Len(result.items) = 3 /\ Len(result.history) = 3
    /\ \E i \in 1..3 : result.items[i].annotations = {}
    /\ \E i, j \in 1..3 : i # j /\ RevisionOf(result.items[i]) = RevisionOf(result.items[j])

(* ------------------------------- C9 ------------------------------------ *)
(* C9: every record that get_deployment_history lists or that              *)
(* rollback_deployment considers or selects for an existing deployment D   *)
(* is owned by D.                                                          *)
C9_RecordsOwnedByDeployment ==
    ((IsRollback \/ IsHistory) /\ result.before # None) =>
        /\ \A i \in 1..Len(result.items) : result.items[i].owner = result.name
        /\ result.target_rs # None => result.target_rs[1].owner = result.name

(* ------------------------------- C10 ----------------------------------- *)
(* C10: after a successful rollback the live deployment's pod template is  *)
(* the selected record's template, and its other fields (replica count,    *)
(* labels) are what they were before the rollback.                         *)
C10_RollbackFrame ==
    (IsRollback /\ Succeeded) =>
        /\ deployments[result.name] # None
        /\ deployments[result.name][1].template = result.target_rs[1].template
        /\ deployments[result.name][1].replicas = result.before[1].replicas
        /\ deployments[result.name][1].labels = result.before[1].labels

(* C10 witness: a successful rollback that changes the template of a       *)
(* deployment running two replicas.                                        *)
C10_Witness ==
    /\ IsRollback /\ Succeeded
    /\ result.before[1].template # result.target_rs[1].template
    /\ result.before[1].replicas = 2

(* ------------------------------- C11 ----------------------------------- *)
HighestRevision(items) == Max({RevisionOf(items[i]) : i \in 1..Len(items)})

(* C11: with the target revision omitted and at least two records, the     *)
(* selected record's revision number is strictly lower than the highest    *)
(* revision number of the collection.                                      *)
C11_PreviousStrictlyLower ==
    (IsRollback /\ result.revision = None /\ Len(result.items) >= 2
                /\ result.before # None) =>
        /\ result.target_rs # None
        /\ RevisionOf(result.target_rs[1]) < HighestRevision(result.items)

(* ------------------------------- C19 ----------------------------------- *)
IsScale == result.op = "scale_deployment"
IsPatch(request) ==
    request.call \in {"patch_namespaced_deployment", "patch_namespaced_deployment_scale"}

IsStats == docker.op = "get_container_stats"
Reported == IsStats /\ docker.report # None
TheStats == docker.stats[1]
TheReport == docker.report[1]
CountersPresent == HasCpuStats(TheStats) /\ ~CpuCounterMissing(TheStats)
Abs(x) == IF x < 0 THEN -x ELSE x

(* C13: when the system CPU counter did not move between the previous and  *)
(* the current snapshot, a report is returned and its cpu_percent is 0.0,  *)
(* whatever the CPU delta and the core count (also an absent core list).   *)
C13_ZeroSystemDelta ==
    (IsStats /\ docker.answer = "ok" /\ CountersPresent /\ SystemDelta(TheStats) = 0)
        => (Reported /\ TheReport.cpu_percent = 0)

C13_Witness ==
    /\ Reported /\ CountersPresent
    /\ SystemDelta(TheStats) = 0 /\ CpuDelta(TheStats) > 0
    /\ TheReport.cpu_percent = 0

(* C14: when the memory limit is 0 or absent the reported memory_percent   *)
(* is 0.0.                                                                 *)
C14_NoMemoryLimit ==
    (Reported /\ (\/ TheStats.memory_stats = None
                  \/ TheStats.memory_stats[1].limit = None
                  \/ TheStats.memory_stats[1].limit = Some(0)))
        => TheReport.memory_percent = 0

C14_Witness ==
    /\ Reported /\ TheStats.memory_stats # None
    /\ TheStats.memory_stats[1].limit = Some(0)
    /\ TheStats.memory_stats[1].usage = Some(512)
    /\ TheReport.memory_percent = 0

(* C15: when the system delta is positive, cpu_percent is                  *)
(* cpu_delta / system_delta * cores * 100 rounded to two decimals: the     *)
(* reported hundredths lie within half a hundredth of the exact quotient,  *)
(* and the snapshots (1000, 10000) -> (1500, 10500) with 2 cores give      *)
(* 200.00.                                                                 *)
C15_CpuPercentFormula ==
    /\ (Reported /\ CountersPresent /\ SystemDelta(TheStats) > 0)
          => 2 * Abs(TheReport.cpu_percent * SystemDelta(TheStats)
                       - CpuDelta(TheStats)
                           * TheStats.cpu_stats[1].cpu_usage[1].percpu_usage[1] * 10000)
               <= SystemDelta(TheStats)
    /\ (Reported /\ TheStats = TypicalStats) => TheReport.cpu_percent = 20000

C15_Witness ==
    /\ Reported /\ TheStats = TypicalStats
    /\ CpuDelta(TheStats) = 500 /\ SystemDelta(TheStats) = 500
    /\ TheReport.cpu_percent = 20000

(* C16: when a CPU counter of the current snapshot is lower than that of   *)
(* the previous one, the reported cpu_percent is 0.0 and never negative.   *)
C16_NegativeDeltaClamped ==
    (Reported /\ CountersPresent)
        => /\ TheReport.cpu_percent >= 0
           /\ (CpuDelta(TheStats) < 0 \/ SystemDelta(TheStats) < 0)
                 => TheReport.cpu_percent = 0

(* C17: for every raw statistics the daemon serves, whatever optional      *)
(* field is absent or empty, get_container_stats returns a report and      *)
(* raises nothing.                                                         *)
C17_NoErrorOutcome ==
    (IsStats /\ docker.answer = "ok") => (docker.raised = None /\ docker.report # None)

RECURSIVE SumValues(_, _)
(* the sum of the values of the entries of `entries` whose op is `op` *)
SumValues(entries, op) ==
    IF entries = <<>> THEN 0
    ELSE (IF Head(entries).op = op THEN Head(entries).value ELSE 0)
           + SumValues(Tail(entries), op)

RECURSIVE SumRx(_, _)
SumRx(nw, ifs) ==
    IF ifs = {} THEN 0
    ELSE LET i == CHOOSE i \in ifs : TRUE
         IN  nw[i].rx_bytes + SumRx(nw, ifs \ {i})

RECURSIVE SumTx(_, _)
SumTx(nw, ifs) ==
    IF ifs = {} THEN 0
    ELSE LET i == CHOOSE i \in ifs : TRUE
         IN  nw[i].tx_bytes + SumTx(nw, ifs \ {i})

(* C18: the reported network and block I/O figures are the cumulative      *)
(* counters of the current snapshot: the bytes received and sent over its  *)
(* interfaces, whatever their names, and the bytes of its read and of its  *)
(* write entries, also when there is a single entry.                       *)
C18_CountersPassThrough ==
    Reported =>
        LET nw == Get(TheStats.networks, <<>>)
        IN  /\ TheReport.network_rx = SumRx(nw, DOMAIN nw)
            /\ TheReport.network_tx = SumTx(nw, DOMAIN nw)
            /\ TheReport.block_read = SumValues(BlkioList(TheStats, <<>>), "Read")
            /\ TheReport.block_write = SumValues(BlkioList(TheStats, <<>>), "Write")

(* ------------------------- claims on get_container --------------------- *)
IsGetContainer == docker.op = "get_container"

(* C20: get_container on an id the daemon does not know raises             *)
(* ContainerNotFoundError, a type other container failures do not raise,   *)
(* and returns no container info.                                          *)
C20_NotFoundRaisesContainerNotFoundError ==
    /\ (IsGetContainer /\ docker.answer = "NotFound")
          => /\ docker.info = None
             /\ docker.raised # None
             /\ docker.raised[1].type = "ContainerNotFoundError"
    /\ (IsGetContainer /\ docker.answer = "APIError" /\ docker.raised # None)
          => docker.raised[1].type # "ContainerNotFoundError"

(* ------------------------ claims on concurrent callers ----------------- *)
AllDone == Len(threads) = 2 /\ \A t \in 1..2 : threads[t].pc = "done"
StartCluster == [deployments |-> StartDeployments, replica_sets |-> StartReplicaSets]

(* C12: when a rollback_deployment and a concurrent update_deployment or   *)
(* rollback_deployment on the same deployment have both finished, whatever *)
(* the interleaving of their requests, the deployment equals the one some  *)
(* serial order of the two calls produces.                                 *)
C12_SerialEquivalent ==
    AllDone =>
        \/ deployments = Serial(Serial(StartCluster, threads[1]), threads[2]).deployments
        \/ deployments = Serial(Serial(StartCluster, threads[2]), threads[1]).deployments

(* ------------------------------- C23 ----------------------------------- *)
(* C23: when rollback_deployment fails before its patch (no records, the   *)
(* requested revision absent, no previous revision, or the read of the     *)
(* live deployment failing), it has issued no patch request and the live   *)
(* deployment is as it was.                                                *)
C23_FailureLeavesDeployment ==
    (IsRollback /\ ~Succeeded) =>
        /\ \A i \in 1..Len(result.requests) : ~IsPatch(result.requests[i])
        /\ DeploymentUntouched

(* C23 witness: a target was selected among two records or more and the    *)
(* read of the deployment failed.                                          *)
C23_Witness ==
    /\ IsRollback /\ ~Succeeded
    /\ Len(result.items) >= 2 /\ result.target_rs # None
    /\ result.outcome = Raised("rollback failed", Some(result.name))
    /\ Len(result.requests) = 2
    /\ result.requests[2].call = "read_namespaced_deployment"
    /\ deployments[result.name] = None

(* ------------------------------- C24 ----------------------------------- *)
(* The first entry of `history` with revision n (None: there is none). *)
FirstEntryWithRevision(history, n) ==
    LET matches == {i \in 1..Len(history) : history[i].revision = n}
    IN  IF matches = {} THEN None
        ELSE Some(history[CHOOSE i \in matches : \A j \in matches : i <= j])

(* C24: on a collection of at least two records, the record a rollback     *)
(* with no revision selects is the one get_deployment_history lists at     *)
(* position 1, and the record a rollback to revision r selects is the      *)
(* first entry of that history with revision r.                            *)
C24_HistoryAgreesWithRollback ==
    (IsRollback /\ Len(result.items) >= 2) =>
        LET history == BuildHistory(result.items)
        IN  /\ result.revision = None =>
                 /\ result.target_rs # None
                 /\ HistoryEntry(result.target_rs[1]) = history[2]
            /\ (result.revision # None
                  /\ FirstEntryWithRevision(history, result.revision[1]) # None) =>
                 /\ result.target_rs # None
                 /\ Some(HistoryEntry(result.target_rs[1]))
                      = FirstEntryWithRevision(history, result.revision[1])

(* --------------------------- claims on namespaces ---------------------- *)
Deleted(n) == n \in k8s.call.before /\ n \notin k8s.namespaces

(* C25: NamespaceManager.delete_namespace with force=False on a system     *)
(* namespace raises an error, sends no request to the cluster and leaves   *)
(* the namespace in existence.                                             *)
C25_SystemNamespaceProtected ==
    (/\ k8s.call.op = "NamespaceManager.delete_namespace"
     /\ ~k8s.call.force
     /\ k8s.call.name \in system_namespaces)
        => /\ k8s.call.outcome.kind = "K8sNamespaceError"
           /\ k8s.call.requests = <<>>
           /\ ~Deleted(k8s.call.name)

C25_Witness ==
    /\ k8s.call.op = "NamespaceManager.delete_namespace"
    /\ ~k8s.call.force
    /\ k8s.call.name = "kube-system"
    /\ "kube-system" \in k8s.call.before /\ "kube-system" \in k8s.namespaces
    /\ k8s.call.outcome.kind = "K8sNamespaceError"

(* C26: whatever the operation, a system namespace goes out of existence   *)
(* only by a call that passed force=True.                                  *)
C26_SystemDeletedOnlyByForce ==
    \A n \in system_namespaces : Deleted(n) => k8s.call.force

(* --------------------------- claims on K8sManager ---------------------- *)
(* C21: once POST /current-namespace has succeeded for a namespace N, a    *)
(* later GET /current-namespace returns N and a later GET /pods without a  *)
(* namespace lists N, N being the namespace of the last successful POST.   *)
C21_PostedNamespaceKept ==
    (k8s.posted # None /\ k8s.call.outcome.status = Some(200)) =>
        /\ k8s.call.op = "GET /current-namespace"
              => k8s.call.outcome.text = k8s.posted[1]
        /\ (k8s.call.op = "GET /pods" /\ k8s.call.name = "")
              => k8s.call.outcome.text = k8s.posted[1]

(* C27: a failed switch_cluster leaves cluster_name, current_namespace and *)
(* the API handles as they were, and in every state cluster_name is the    *)
(* cluster the handles are connected to.                                   *)
C27_FailedSwitchKeepsState ==
    /\ (k8s.call.op = "switch_cluster" /\ k8s.call.outcome.kind # "return")
          => /\ k8s.cluster_name = k8s.call.cluster_before
             /\ k8s.current_namespace = k8s.call.namespace_before
             /\ k8s.handles = k8s.call.handles_before
    /\ k8s.handles = Some(k8s.cluster_name)

(* ------------------- claims on the Docker routes and managers ---------- *)
(* C22: whenever POST /images/pull answers with the success message for    *)
(* repository:tag, the daemon's pull for that repository and tag has been  *)
(* invoked exactly once.                                                   *)
C22_PullInvokedOnce ==
    (docker.op = "POST /images/pull" /\ docker.status = Some(200)) =>
        /\ Len(docker.requests) = 1
        /\ docker.requests[1].call = "api.pull"
        /\ docker.requests[1].target = docker.target

(* C28: GET /containers/{container_id} answers 404 only when the daemon    *)
(* was reached and does not know the container.                            *)
C28_NotFoundOnly404 ==
    (docker.op = "GET /containers/{container_id}" /\ docker.status = Some(404))
        => docker.answer = "NotFound"

IsCleanup == docker.op \in {"cleanup_system", "POST /system/prune"}
Rank(category) == CHOOSE i \in 1..Len(Categories) : Categories[i] = category
Pruned == {docker.requests[i].target[1] : i \in 1..Len(docker.requests)}

(* C29: cleanup_system prunes only categories whose flag is true, in the   *)
(* order containers, images, volumes, networks; without prune_volumes, as  *)
(* always through POST /system/prune, no volume prune is made and the      *)
(* result has no 'volumes' key; a returned result has a key for exactly    *)
(* the categories pruned, which are then all the flagged ones.             *)
C29_PruneOnlyFlagged ==
    IsCleanup =>
        /\ \A c \in Pruned : docker.flags[c]
        /\ \A i, j \in 1..Len(docker.requests) :
              i < j => Rank(docker.requests[i].target[1])
                         < Rank(docker.requests[j].target[1])
        /\ ~docker.flags["volumes"] => ("volumes" \notin Pruned /\ "volumes" \notin docker.keys)
        /\ docker.op = "POST /system/prune" => ~docker.flags["volumes"]
        /\ docker.raised = None =>
              /\ docker.keys = Pruned
              /\ docker.keys = {c \in CategorySet : docker.flags[c]}

C29_Witness ==
    /\ docker.op = "cleanup_system" /\ docker.raised = None
    /\ docker.flags = DefaultFlags
    /\ Len(docker.requests) = 3
    /\ docker.requests[1].target = <<"containers">>
    /\ docker.requests[3].target = <<"networks">>
    /\ docker.keys = {"containers", "images", "networks"}

Removals == {i \in 1..Len(docker.requests) : docker.requests[i].call = "remove"}

(* C30: once backup_volume has created its helper container, on every     *)
(* path by which it returns or raises it has requested the container's     *)
(* removal with force, as its last request, and the volume was mounted     *)
(* read-only.                                                              *)
C30_BackupRemovesContainer ==
    (docker.op = "backup_volume" /\ docker.answer # "create") =>
        /\ Removals = {Len(docker.requests)}
        /\ docker.requests[Len(docker.requests)].force
        /\ \A i \in 1..Len(docker.requests) :
              docker.requests[i].call = "containers.create"
                 => docker.requests[i].mode = "ro"
        /\ \A i \in 1..Len(docker.requests) : docker.requests[i].mode # "rw"

(* C30 witness: container.wait raised; the container was still removed. *)
C30_Witness ==
    /\ docker.op = "backup_volume" /\ docker.answer = "wait"
    /\ docker.raised # None
    /\ Len(docker.requests) = 4
    /\ docker.requests[1].call = "containers.create" /\ docker.requests[1].mode = "ro"
    /\ docker.requests[3].call = "wait"
    /\ docker.requests[4].call = "remove" /\ docker.requests[4].force

=============================================================================
